---------------------------- MODULE Spec2Model ----------------------------
(***************************************************************************)
(* Model of src/new.rs: the project scaffolding generator (create,        *)
(* Creator::new, Creator::run, the per-file content builders, write and   *)
(* validate_name).                                                         *)
(*                                                                         *)
(* Text.  A Rust string is modelled as a sequence of tokens.  A token is   *)
(* either one character of a project name (a one-character string) or a   *)
(* chunk of literal template text, written as one multi-character string.  *)
(* Concatenation and format! are sequence concatenation.  A path is a      *)
(* sequence of components, each component a text.                          *)
(***************************************************************************)
EXTENDS Integers, Sequences, FiniteSets, TLC

VARIABLES
    reserved,   \* crate::erl::is_erlang_reserved_word, as the set it accepts
    stdlib,     \* crate::erl::is_erlang_standard_library_module, as a set
    keywords,   \* crate::parse::lexer::str_to_keyword(..).is_some(), as a set
    vname,      \* the argument of a direct validate_name call
    vresult,    \* and what it returned
    dirs,       \* filesystem: the set of paths that are directories
    files,      \* filesystem: path -> contents of every regular file
    pc,         \* "idle" | "run" (inside Creator::run) | "ran" | "done"
    step,       \* index of the next statement of Creator::run
    options,    \* the NewOptions argument of the current create call
    version,    \* the gleam version argument of the current create call
    creator,    \* the Creator built by Creator::new
    result,     \* what create returned (NoResult while it is running)
    trace,      \* the filesystem calls of the current create call, in order
    stdout,     \* the lines the current create call printed
    runs,       \* number of create calls started
    before,     \* the filesystem as it was when the current call started
    prev        \* arguments and result of the previous create call

vars == <<reserved, stdlib, keywords, vname, vresult, dirs, files, pc, step,
          options, version, creator, result, trace, stdout, runs, before, prev>>

genVars == <<dirs, files, pc, step, options, version, creator, result, trace,
             stdout, runs, before, prev>>

---------------------------------------------------------------------------
(* Bounds *)

MaxNameLen == 2

MaxRuns == 1

MaxReruns == 1

MaxPartial == 1

---------------------------------------------------------------------------
(* Constants of new.rs *)

GLEAM_STDLIB_VERSION == <<"0.13.0">>

GLEAM_OTP_VERSION == <<"0.1.0">>

ERLANG_OTP_VERSION == <<"22.1">>

PROJECT_VERSION == <<"1.0.0">>

---------------------------------------------------------------------------
(* Text helpers *)

\* A chunk of literal template text; the empty literal is the empty text.
Lit(s) == IF s = "" THEN <<>> ELSE <<s>>

\* format!(lits[1] {} lits[2] {} ... lits[n+1], args[1], ..., args[n]):
\* the i-th hole takes the i-th argument.
RECURSIVE Format(_, _)
Format(lits, args) ==
    IF args = <<>> THEN Lit(Head(lits))
    ELSE Lit(Head(lits)) \o Head(args) \o Format(Tail(lits), Tail(args))

\* PathBuf::from(s): the components of s, split at the separator.
RECURSIVE PathBufFrom(_)
PathBufFrom(s) ==
    IF \A i \in 1..Len(s) : s[i] # "/"
    THEN <<s>>
    ELSE LET k == CHOOSE i \in 1..Len(s) :
                      s[i] = "/" /\ \A j \in 1..(i-1) : s[j] # "/"
         IN <<SubSeq(s, 1, k-1)>> \o PathBufFrom(SubSeq(s, k+1, Len(s)))

\* Path::join with a relative component.
Join(path, component) == Append(path, component)

\* Path::to_str: the components separated by "/".
RECURSIVE ToStr(_)
ToStr(path) ==
    IF Len(path) = 1 THEN path[1]
    ELSE path[1] \o <<"/">> \o ToStr(Tail(path))

Parent(path) == SubSeq(path, 1, Len(path) - 1)

Prefixes(path) == {SubSeq(path, 1, k) : k \in 1..Len(path)}

---------------------------------------------------------------------------
(* Results and errors (crate::error::Error, only the variants new.rs makes) *)

Ok ==
    [error |-> "None", name |-> <<>>, reason |-> "", kind |-> "",
     path |-> <<>>, action |-> ""]

NoResult ==
    [error |-> "Running", name |-> <<>>, reason |-> "", kind |-> "",
     path |-> <<>>, action |-> ""]

InvalidProjectName(name, reason) ==
    [error |-> "InvalidProjectName", name |-> name, reason |-> reason,
     kind |-> "", path |-> <<>>, action |-> ""]

\* The OS error text (err: Some(err.to_string())) is left out.
FileIO(kind, path, action) ==
    [error |-> "FileIO", name |-> <<>>, reason |-> "", kind |-> kind,
     path |-> path, action |-> action]

---------------------------------------------------------------------------
(* validate_name *)

is_erlang_reserved_word(name) == name \in reserved

is_erlang_standard_library_module(name) == name \in stdlib

str_to_keyword_is_some(name) == name \in keywords

LowerOrUnderscore ==
    {"a", "b", "c", "d", "e", "f", "g", "h", "i", "j", "k", "l", "m", "n",
     "o", "p", "q", "r", "s", "t", "u", "v", "w", "x", "y", "z", "_"}

\* The pattern ^[a-z_]*$: the empty string matches too.
is_match_star(name) ==
    \A i \in 1..Len(name) : name[i] \in LowerOrUnderscore

\* Regex::new("^[a-z_]+$").is_match(name)
is_match(name) ==
    /\ Len(name) >= 1
    /\ \A i \in 1..Len(name) : name[i] \in LowerOrUnderscore

\* The same checks with the first two in the other order.
validate_name_stdlib_first(name) ==
    IF is_erlang_standard_library_module(name)
    THEN InvalidProjectName(name, "ErlangStandardLibraryModule")
    ELSE IF is_erlang_reserved_word(name)
    THEN InvalidProjectName(name, "ErlangReservedWord")
    ELSE IF str_to_keyword_is_some(name)
    THEN InvalidProjectName(name, "GleamReservedWord")
    ELSE IF ~is_match(name)
    THEN InvalidProjectName(name, "Format")
    ELSE Ok

\* The same checks without the format check.
validate_name_no_format(name) ==
    IF is_erlang_reserved_word(name)
    THEN InvalidProjectName(name, "ErlangReservedWord")
    ELSE IF is_erlang_standard_library_module(name)
    THEN InvalidProjectName(name, "ErlangStandardLibraryModule")
    ELSE IF str_to_keyword_is_some(name)
    THEN InvalidProjectName(name, "GleamReservedWord")
    ELSE Ok

validate_name(name) ==
    IF is_erlang_reserved_word(name)
    THEN InvalidProjectName(name, "ErlangReservedWord")
    ELSE IF is_erlang_standard_library_module(name)
    THEN InvalidProjectName(name, "ErlangStandardLibraryModule")
    ELSE IF str_to_keyword_is_some(name)
    THEN InvalidProjectName(name, "GleamReservedWord")
    ELSE IF ~is_match(name)
    THEN InvalidProjectName(name, "Format")
    ELSE Ok

---------------------------------------------------------------------------
(* Creator *)

None == [some |-> FALSE, val |-> <<>>]

Some(s) == [some |-> TRUE, val |-> s]

NoOptions ==
    [name |-> <<>>, description |-> <<>>, template |-> "Lib",
     project_root |-> None]

NoCreator ==
    [root |-> <<>>, src |-> <<>>, test |-> <<>>, github |-> <<>>,
     workflows |-> <<>>, gleam_version |-> <<>>, options |-> NoOptions]

new(opts, gleam_version) ==
    LET root == IF opts.project_root.some
                THEN PathBufFrom(opts.project_root.val)
                ELSE PathBufFrom(opts.name)
        github == Join(root, <<".github">>)
    IN [root |-> root,
        src |-> Join(root, <<"src">>),
        test |-> Join(root, <<"test">>),
        github |-> github,
        workflows |-> Join(github, <<"workflows">>),
        gleam_version |-> gleam_version,
        options |-> opts]

\* The arguments of a write(path, contents) call.
WriteCall(path, contents) == [path |-> path, contents |-> contents]

src_application_module(c) ==
    WriteCall(
        Join(Join(c.src, c.options.name), <<"application.gleam">>),
        <<"import gleam/otp/supervisor.{ApplicationStartMode, ErlangStartResult}\nimport gleam/dynamic.{Dynamic}\n\nfn init(children) {\n  children\n}\n\npub fn start(\n  _mode: ApplicationStartMode,\n  _args: List(Dynamic),\n) -> ErlangStartResult {\n  init\n  |> supervisor.start\n  |> supervisor.to_erlang_start_result\n}\n\npub fn stop(_state: Dynamic) {\n  supervisor.application_stopped()\n}\n">>)

src_module(c) ==
    WriteCall(
        Join(c.src, Format(<<"", ".gleam">>, <<c.options.name>>)),
        Format(<<"pub fn hello_world() -> String {\n  \"Hello, from ", "!\"\n}\n">>,
               <<c.options.name>>))

lib_rebar_config(c) ==
    WriteCall(
        Join(c.root, <<"rebar.config">>),
        Format(<<"{erl_opts, [debug_info]}.\n{src_dirs, [\"src\", \"gen/src\"]}.\n\n{profiles, [\n    {test, [{src_dirs, [\"src\", \"test\", \"gen/src\", \"gen/test\"]}]}\n]}.\n\n{project_plugins, [rebar_gleam]}.\n\n{deps, [\n    {gleam_stdlib, \"",
                 "\"}\n]}.\n">>,
               <<GLEAM_STDLIB_VERSION>>))

app_rebar_config(c) ==
    WriteCall(
        Join(c.root, <<"rebar.config">>),
        Format(<<"{erl_opts, [debug_info]}.\n{src_dirs, [\"src\", \"gen/src\"]}.\n\n{profiles, [\n    {test, [{src_dirs, [\"src\", \"test\", \"gen/src\", \"gen/test\"]}]}\n]}.\n\n{shell, [\n    % {config, \"config/sys.config\"},\n    {apps, [",
                 "]}\n]}.\n\n{project_plugins, [rebar_gleam]}.\n\n{deps, [\n    {gleam_stdlib, \"",
                 "\"},\n    {gleam_otp, \"",
                 "\"}\n]}.\n">>,
               <<c.options.name, GLEAM_STDLIB_VERSION, GLEAM_OTP_VERSION>>))

\* The entry-point registration field of the app descriptor.
ModField(name) == Format(<<"\n  {mod, {", "@application, []}},">>, <<name>>)

AppSrcLits ==
    <<"{application, ",
      ",\n [{description, \"",
      "\"},\n  {vsn, \"",
      "\"},\n  {registered, []},",
      "\n  {applications,\n   [kernel,\n    stdlib,\n    gleam_stdlib\n   ]},\n  {env,[]},\n  {modules, []},\n\n  {include_files, [\"gleam.toml\", \"gen\"]},\n  {licenses, [\"Apache 2.0\"]},\n  {links, []}\n]}.\n">>

\* app_src that registers the entry point for every template.
app_src_always_mod(c) ==
    WriteCall(
        Join(c.src, Format(<<"", ".app.src">>, <<c.options.name>>)),
        Format(AppSrcLits,
               <<c.options.name, PROJECT_VERSION, c.options.description,
                 ModField(c.options.name)>>))

app_src(c) ==
    LET module == IF c.options.template = "App"
                  THEN ModField(c.options.name)
                  ELSE <<>>
    IN WriteCall(
        Join(c.src, Format(<<"", ".app.src">>, <<c.options.name>>)),
        Format(AppSrcLits,
               <<c.options.name, PROJECT_VERSION, c.options.description,
                 module>>))

gitignore(c) ==
    WriteCall(
        Join(c.root, <<".gitignore">>),
        <<"*.beam\n*.iml\n*.o\n*.plt\n*.swo\n*.swp\n*~\n.erlang.cookie\n.eunit\n.idea\n.rebar\n.rebar3\n_*\n_build\ndocs\nebin\nerl_crash.dump\ngen\nlog\nlogs\nrebar3.crashdump\n">>)

\* In the literal text, [tick] stands for a backquote and [fence] for three
\* of them.
readme(c) ==
    WriteCall(
        Join(c.root, <<"README.md">>),
        Format(<<"# ",
                 "\n\n",
                 "\n\n## Quick start\n\n[fence]sh\n# Build the project\nrebar3 compile\n\n# Run the eunit tests\nrebar3 eunit\n\n# Run the Erlang REPL\nrebar3 shell\n[fence]\n\n## Installation\n\nIf [available in Hex](https://www.rebar3.org/docs/dependencies#section-declaring-dependencies)\nthis package can be installed by adding [tick]",
                 "[tick] to your [tick]rebar.config[tick] dependencies:\n\n[fence]erlang\n{deps, [\n    ",
                 "\n]}.\n[fence]\n">>,
               <<c.options.name, c.options.description, c.options.name,
                 c.options.name>>))

github_ci(c) ==
    WriteCall(
        Join(c.workflows, <<"test.yml">>),
        Format(<<"name: test\n\non:\n  push:\n    branches:\n      - master\n      - main\n  pull_request:\n\njobs:\n  test:\n    runs-on: ubuntu-latest\n    steps:\n      - uses: actions/checkout@v2.0.0\n      - uses: gleam-lang/setup-erlang@v1.1.0\n        with:\n          otp-version: ",
                 "\n      - uses: gleam-lang/setup-gleam@v1.0.2\n        with:\n          gleam-version: ",
                 "\n      - run: rebar3 install_deps\n      - run: rebar3 eunit\n      - run: gleam format --check src test\n">>,
               <<ERLANG_OTP_VERSION, c.gleam_version>>))

gleam_toml(c) ==
    WriteCall(
        Join(c.root, <<"gleam.toml">>),
        Format(<<"name = \"",
                 "\"\n\n# [docs]\n# links = [\n#   { title = 'GitHub', href = 'https://github.com/username/project_name' }\n# ]\n">>,
               <<c.options.name>>))

test_module(c) ==
    WriteCall(
        Join(c.test, Format(<<"", "_test.gleam">>, <<c.options.name>>)),
        Format(<<"import ",
                 "\nimport gleam/should\n\npub fn hello_world_test() {\n  ",
                 ".hello_world()\n  |> should.equal(\"Hello, from ",
                 "!\")\n}\n">>,
               <<c.options.name, c.options.name, c.options.name>>))

---------------------------------------------------------------------------
(* Creator::run, as the sequence of its statements.  Every statement ends *)
(* in `?`: an error returns from run at once.                              *)

MkdirStmt(path) == [op |-> "mkdir", path |-> path, contents |-> <<>>]

WriteStmt(call) == [op |-> "write", path |-> call.path, contents |-> call.contents]

\* run with the first file written before the last directories exist.
run_write_early(c) ==
    <<MkdirStmt(c.root), MkdirStmt(c.src), MkdirStmt(c.test),
      WriteStmt(gitignore(c)),
      MkdirStmt(c.github), MkdirStmt(c.workflows)>>
    \o (IF c.options.template = "Lib"
        THEN <<WriteStmt(github_ci(c)), WriteStmt(readme(c)),
               WriteStmt(gleam_toml(c)), WriteStmt(lib_rebar_config(c)),
               WriteStmt(app_src(c)), WriteStmt(src_module(c)),
               WriteStmt(test_module(c))>>
        ELSE <<MkdirStmt(Join(c.src, c.options.name)),
               WriteStmt(github_ci(c)), WriteStmt(readme(c)),
               WriteStmt(gleam_toml(c)), WriteStmt(app_rebar_config(c)),
               WriteStmt(app_src(c)), WriteStmt(src_module(c)),
               WriteStmt(src_application_module(c)),
               WriteStmt(test_module(c))>>)

\* run with the module stubs written before the build configuration.
run_stubs_first(c) ==
    <<MkdirStmt(c.root), MkdirStmt(c.src), MkdirStmt(c.test),
      MkdirStmt(c.github), MkdirStmt(c.workflows)>>
    \o (IF c.options.template = "Lib"
        THEN <<WriteStmt(gitignore(c)), WriteStmt(github_ci(c)),
               WriteStmt(readme(c)), WriteStmt(gleam_toml(c)),
               WriteStmt(src_module(c)), WriteStmt(test_module(c)),
               WriteStmt(lib_rebar_config(c)), WriteStmt(app_src(c))>>
        ELSE <<MkdirStmt(Join(c.src, c.options.name)),
               WriteStmt(gitignore(c)), WriteStmt(github_ci(c)),
               WriteStmt(readme(c)), WriteStmt(gleam_toml(c)),
               WriteStmt(src_module(c)), WriteStmt(test_module(c)),
               WriteStmt(app_rebar_config(c)),
               WriteStmt(src_application_module(c)),
               WriteStmt(app_src(c))>>)

run(c) ==
    <<MkdirStmt(c.root), MkdirStmt(c.src), MkdirStmt(c.test),
      MkdirStmt(c.github), MkdirStmt(c.workflows)>>
    \o (IF c.options.template = "Lib"
        THEN <<WriteStmt(gitignore(c)), WriteStmt(github_ci(c)),
               WriteStmt(readme(c)), WriteStmt(gleam_toml(c)),
               WriteStmt(lib_rebar_config(c)), WriteStmt(app_src(c)),
               WriteStmt(src_module(c)), WriteStmt(test_module(c))>>
        ELSE <<MkdirStmt(Join(c.src, c.options.name)),
               WriteStmt(gitignore(c)), WriteStmt(github_ci(c)),
               WriteStmt(readme(c)), WriteStmt(gleam_toml(c)),
               WriteStmt(app_rebar_config(c)), WriteStmt(app_src(c)),
               WriteStmt(src_module(c)),
               WriteStmt(src_application_module(c)),
               WriteStmt(test_module(c))>>)

\* The statement Creator::run is about to execute.
Stmt == run(creator)[step]

---------------------------------------------------------------------------
(* Filesystem primitives *)

\* crate::fs::mkdir can succeed: nothing on the way to `path` is a regular
\* file.  A directory that already exists is not an obstacle.
CanMkdir(path) == \A p \in Prefixes(path) : p \notin DOMAIN files

\* File::create that refuses a path that already exists (create_new).
CanCreateNew(path) ==
    Parent(path) \in dirs /\ path \notin dirs /\ path \notin DOMAIN files

\* File::create can succeed: the parent is a directory and `path` itself
\* is not one.  An existing regular file is truncated.
CanCreate(path) == Parent(path) \in dirs /\ path \notin dirs

WithFile(path, contents) ==
    [p \in DOMAIN files \cup {path} |->
        IF p = path THEN contents ELSE files[p]]

TraceEntry(stmt, ok) == [op |-> stmt.op, path |-> stmt.path, ok |-> ok]

\* println!("* creating {}", path.to_str()...)
CreatingLine(path) == <<"* creating ">> \o ToStr(path)

\* The success message of create.
SuccessLine(c) ==
    Format(<<"\nYour Gleam project \"",
             "\" has been successfully created.\nThe rebar3 program can be used to compile and test it.\n\n    cd ",
             "\n    rebar3 eunit\n">>,
           <<c.options.name, ToStr(c.root)>>)

---------------------------------------------------------------------------
(* Inputs *)

Alphabet == {"a", "z", "_", "A", "1", "-", " "}

\* Every string over Alphabet of at most MaxNameLen characters.
Names == UNION {[1..k -> Alphabet] : k \in 0..MaxNameLen}

\* Words the three lookup tables may hold when validate_name is checked on
\* its own.
WordPool == {<<"a">>, <<"z", "a">>, <<"a", "1">>}

\* The arguments create is called with.
CreateNames == {<<"a">>, <<"i", "f">>, <<"r", "e">>, <<"f", "n">>, <<"A">>}

Descriptions == {<<>>, <<"A demo">>}

Templates == {"Lib", "App"}

ProjectRoots == {None, Some(<<"a", "/", "README.md">>)}

\* The generator's own version, which its caller passes to every call.
Versions == {<<"0.12.0">>}

AllOptions ==
    [name : CreateNames, description : Descriptions, template : Templates,
     project_root : ProjectRoots]

---------------------------------------------------------------------------
(* Initial states *)

GenInit ==
    /\ dirs = {}
    /\ files = <<>>
    /\ pc = "idle"
    /\ step = 0
    /\ options = NoOptions
    /\ version = <<>>
    /\ creator = NoCreator
    /\ result = NoResult
    /\ trace = <<>>
    /\ stdout = <<>>
    /\ runs = 0
    /\ before = [dirs |-> {}, files |-> <<>>]
    /\ prev = [options |-> NoOptions, version |-> <<>>, result |-> NoResult]

Init ==
    /\ reserved = {<<"i", "f">>}
    /\ stdlib = {<<"r", "e">>}
    /\ keywords = {<<"f", "n">>}
    /\ vname = <<>>
    /\ vresult = NoResult
    /\ GenInit

InitV ==
    /\ reserved \in SUBSET WordPool
    /\ stdlib \in SUBSET WordPool
    /\ keywords \in SUBSET WordPool
    /\ vname \in Names
    /\ vresult = NoResult
    /\ GenInit

---------------------------------------------------------------------------
(* Actions *)

\* A direct call of validate_name.
Validate ==
    /\ vresult = NoResult
    /\ vresult' = validate_name(vname)
    /\ UNCHANGED <<reserved, stdlib, keywords, vname, genVars>>

\* create that builds the Creator and runs it without validating the name.
create_entry_unchecked(opts, v) ==
    [pc |-> "run", step |-> 1, creator |-> new(opts, v), result |-> NoResult]

\* The head of create: validate_name(&options.name)?, then Creator::new.
create_entry(opts, v) ==
    IF validate_name(opts.name) # Ok
    THEN [pc |-> "done", step |-> 0, creator |-> NoCreator,
          result |-> validate_name(opts.name)]
    ELSE [pc |-> "run", step |-> 1, creator |-> new(opts, v),
          result |-> NoResult]

\* create(opts, v) is called: everything up to the first filesystem call.
Call(opts, v) ==
    LET e == create_entry(opts, v)
    IN /\ options' = opts
       /\ version' = v
       /\ pc' = e.pc
       /\ step' = e.step
       /\ creator' = e.creator
       /\ result' = e.result
       /\ runs' = runs + 1
       /\ before' = [dirs |-> dirs, files |-> files]
       /\ prev' = [options |-> options, version |-> version, result |-> result]
       /\ trace' = <<>>
       /\ stdout' = <<>>
       /\ UNCHANGED <<reserved, stdlib, keywords, vname, vresult, dirs, files>>

\* The caller calls create, with any arguments, when no call is running.
Create ==
    /\ pc \in {"idle", "done"}
    /\ runs < MaxRuns
    /\ \E opts \in AllOptions, v \in Versions : Call(opts, v)

\* The first call on the empty tree.
First ==
    /\ pc = "idle"
    /\ \E opts \in AllOptions, v \in Versions : Call(opts, v)

\* After a successful call the caller calls create again for the same
\* project: the same name, template and project_root; the description is
\* the caller's choice again.
Rerun ==
    /\ pc = "done"
    /\ result = Ok
    /\ runs < 1 + MaxReruns
    /\ \E d \in Descriptions, v \in Versions :
          Call([options EXCEPT !.description = d], v)

InRun == pc = "run" /\ step <= Len(run(creator))

\* crate::fs::mkdir(path) returns Ok: the directory and its missing
\* ancestors exist afterwards.
MkdirOk ==
    /\ InRun
    /\ LET s == Stmt IN
       /\ s.op = "mkdir"
       /\ CanMkdir(s.path)
       /\ dirs' = dirs \cup Prefixes(s.path)
       /\ trace' = Append(trace, TraceEntry(s, TRUE))
       /\ step' = step + 1
       /\ UNCHANGED <<reserved, stdlib, keywords, vname, vresult, files, pc,
                      options, version, creator, result, stdout, runs, before, prev>>

\* A failed mkdir that is ignored: run goes on with the next statement.
MkdirErrIgnored ==
    /\ InRun
    /\ LET s == Stmt IN
       /\ s.op = "mkdir"
       /\ trace' = Append(trace, TraceEntry(s, FALSE))
       /\ step' = step + 1
       /\ UNCHANGED <<reserved, stdlib, keywords, vname, vresult, dirs, files, pc,
                      options, version, creator, result, stdout, runs, before, prev>>

\* crate::fs::mkdir(path)? fails: run and create return the error.  The
\* filesystem can refuse at any time; ancestors made before the failure stay.
MkdirErr ==
    /\ InRun
    /\ LET s == Stmt IN
       /\ s.op = "mkdir"
       /\ \E k \in 0..(Len(s.path) - 1) :
             /\ CanMkdir(SubSeq(s.path, 1, k))
             /\ dirs' = dirs \cup Prefixes(SubSeq(s.path, 1, k))
       /\ trace' = Append(trace, TraceEntry(s, FALSE))
       /\ result' = FileIO("Directory", s.path, "Create")
       /\ pc' = "done"
       /\ UNCHANGED <<reserved, stdlib, keywords, vname, vresult, files, step,
                      options, version, creator, stdout, runs, before, prev>>

\* write(path, contents) returns Ok.
WriteOk ==
    /\ InRun
    /\ LET s == Stmt IN
       /\ s.op = "write"
       /\ CanCreate(s.path)
       /\ stdout' = Append(stdout, CreatingLine(s.path))
       /\ files' = WithFile(s.path, s.contents)
       /\ trace' = Append(trace, TraceEntry(s, TRUE))
       /\ step' = step + 1
       /\ UNCHANGED <<reserved, stdlib, keywords, vname, vresult, dirs, pc,
                      options, version, creator, result, runs, before, prev>>

\* write(path, contents)?: File::create fails.
WriteCreateErr ==
    /\ InRun
    /\ LET s == Stmt IN
       /\ s.op = "write"
       /\ stdout' = Append(stdout, CreatingLine(s.path))
       /\ trace' = Append(trace, TraceEntry(s, FALSE))
       /\ result' = FileIO("File", s.path, "Create")
       /\ pc' = "done"
       /\ UNCHANGED <<reserved, stdlib, keywords, vname, vresult, dirs, files,
                      step, options, version, creator, runs, before, prev>>

Min(a, b) == IF a < b THEN a ELSE b

\* write(path, contents)?: File::create succeeds (the file is created or
\* truncated) and write_all fails, leaving a proper prefix of the contents.
WriteToErr ==
    /\ InRun
    /\ LET s == Stmt IN
       /\ s.op = "write"
       /\ CanCreate(s.path)
       /\ \E k \in 0..Min(MaxPartial, Len(s.contents) - 1) :
             files' = WithFile(s.path, SubSeq(s.contents, 1, k))
       /\ stdout' = Append(stdout, CreatingLine(s.path))
       /\ trace' = Append(trace, TraceEntry(s, FALSE))
       /\ result' = FileIO("File", s.path, "WriteTo")
       /\ pc' = "done"
       /\ UNCHANGED <<reserved, stdlib, keywords, vname, vresult, dirs, step,
                      options, version, creator, runs, before, prev>>

\* run returned Ok(()): create prints the success message and returns Ok(()).
PrintSuccess ==
    /\ pc = "run"
    /\ step > Len(run(creator))
    /\ stdout' = Append(stdout, SuccessLine(creator))
    /\ result' = Ok
    /\ pc' = "done"
    /\ UNCHANGED <<reserved, stdlib, keywords, vname, vresult, dirs, files,
                   step, options, version, creator, trace, runs, before, prev>>

Next ==
    \/ Create
    \/ MkdirOk
    \/ MkdirErr
    \/ WriteOk
    \/ WriteCreateErr
    \/ WriteToErr
    \/ PrintSuccess

Spec == Init /\ [][Next]_vars

NextRerun ==
    \/ First
    \/ Rerun
    \/ MkdirOk
    \/ MkdirErr
    \/ WriteOk
    \/ WriteCreateErr
    \/ WriteToErr
    \/ PrintSuccess

SpecRerun == Init /\ [][NextRerun]_vars

NextV == Validate

SpecV == InitV /\ [][NextV]_vars

---------------------------------------------------------------------------
(* Vocabulary of the properties *)

Steps == run(creator)

IsPrefix(a, b) == Len(a) <= Len(b) /\ SubSeq(b, 1, Len(a)) = a

Range(seq) == {seq[i] : i \in 1..Len(seq)}

Contains(text, sub) ==
    \E i \in 1..(Len(text) - Len(sub) + 1) :
        SubSeq(text, i, i + Len(sub) - 1) = sub

\* The text between the first token `open` and the next token `close`.
Between(text, open, close) ==
    LET i == CHOOSE n \in 1..Len(text) :
                 text[n] = open /\ \A m \in 1..(n-1) : text[m] # open
        j == CHOOSE n \in (i+1)..Len(text) :
                 text[n] = close /\ \A m \in (i+1)..(n-1) : text[m] # close
    IN SubSeq(text, i + 1, j - 1)

IsWrite(e) == e.op = "write"

IsMkdir(e) == e.op = "mkdir"

PathsOf(entries) == [i \in 1..Len(entries) |-> entries[i].path]

\* The paths create tried to write, and to make, in this call, in order.
WrittenPaths == PathsOf(SelectSeq(trace, IsWrite))

MkdirPaths == PathsOf(SelectSeq(trace, IsMkdir))

Written(path) ==
    \E i \in 1..Len(trace) :
        trace[i] = [op |-> "write", path |-> path, ok |-> TRUE]

Succeeded == pc = "done" /\ result = Ok

Confirmed ==
    \E i \in 1..Len(stdout) :
        stdout[i] = <<"\nYour Gleam project \"">> \o options.name
                    \o <<"\" has been successfully created.\nThe rebar3 program can be used to compile and test it.\n\n    cd ">>
                    \o ToStr(creator.root) \o <<"\n    rebar3 eunit\n">>

InTables(name) == name \in reserved \cup stdlib \cup keywords

Upper ==
    {"A", "B", "C", "D", "E", "F", "G", "H", "I", "J", "K", "L", "M", "N",
     "O", "P", "Q", "R", "S", "T", "U", "V", "W", "X", "Y", "Z"}

Digit == {"0", "1", "2", "3", "4", "5", "6", "7", "8", "9"}

HasForbiddenChar(name) ==
    \E i \in 1..Len(name) : name[i] \in Upper \cup Digit \cup {"-", " "}

Validated == vresult # NoResult

\* The layout the properties expect, spelled out from the options.
ExpectedRoot ==
    IF options.project_root.some
    THEN PathBufFrom(options.project_root.val)
    ELSE <<options.name>>

ExpectedDirs ==
    LET root == ExpectedRoot
    IN <<root,
         root \o <<<<"src">>>>,
         root \o <<<<"test">>>>,
         root \o <<<<".github">>>>,
         root \o <<<<".github">>, <<"workflows">>>>>>
       \o (IF options.template = "App"
           THEN <<root \o <<<<"src">>, options.name>>>>
           ELSE <<>>)

AppModulePath ==
    ExpectedRoot \o <<<<"src">>, options.name, <<"application.gleam">>>>

AppSrcPath == ExpectedRoot \o <<<<"src">>, options.name \o <<".app.src">>>>

---------------------------------------------------------------------------
(* C1 *)

\* C1: when create is called with a name validate_name rejects, it returns
\* InvalidProjectName with the reason validate_name gives, makes no
\* filesystem call and prints nothing: the filesystem is what it was before
\* the call, whatever the template and the project_root.
C1_RejectedNameTouchesNothing ==
    (runs > 0 /\ validate_name(options.name) # Ok) =>
        /\ pc = "done"
        /\ result.error = "InvalidProjectName"
        /\ result.name = options.name
        /\ result.reason = validate_name(options.name).reason
        /\ trace = <<>>
        /\ stdout = <<>>
        /\ dirs = before.dirs
        /\ files = before.files

C1_Witness ==
    /\ runs > 0
    /\ pc = "done"
    /\ result = InvalidProjectName(<<"i", "f">>, "ErlangReservedWord")
    /\ options.template = "App"
    /\ options.project_root.some

---------------------------------------------------------------------------
(* C2, C3, C4: validate_name on its own, under SpecV *)

\* C2: validate_name reports the first matching rule in the order reserved
\* word, standard-library module, language keyword: a reserved word fails
\* with ErlangReservedWord whatever else it is, a standard-library module
\* that is no reserved word with ErlangStandardLibraryModule, a keyword that
\* is neither with GleamReservedWord.
C2_FirstMatchingRule ==
    Validated =>
        /\ vname \in reserved =>
              vresult = InvalidProjectName(vname, "ErlangReservedWord")
        /\ vname \in stdlib \ reserved =>
              vresult = InvalidProjectName(vname, "ErlangStandardLibraryModule")
        /\ vname \in keywords \ (reserved \cup stdlib) =>
              vresult = InvalidProjectName(vname, "GleamReservedWord")

C2_Witness ==
    /\ Validated
    /\ vname \in reserved \cap stdlib \cap keywords
    /\ \A i \in 1..Len(vname) : vname[i] \in LowerOrUnderscore
    /\ vresult.reason = "ErlangReservedWord"

\* C3, as claimed: every string with an uppercase letter, digit, hyphen or
\* space fails with the Format reason, whatever the three tables hold.
C3_AsClaimed ==
    (Validated /\ HasForbiddenChar(vname)) =>
        vresult = InvalidProjectName(vname, "Format")

\* C3, amended: a string with an uppercase letter, digit, hyphen or space
\* that is in none of the three tables fails with the Format reason; one
\* that is in a table fails with a table's reason and never with Format.
C3_ForbiddenCharOutsideTables ==
    (Validated /\ HasForbiddenChar(vname)) =>
        /\ ~InTables(vname) => vresult = InvalidProjectName(vname, "Format")
        /\ InTables(vname) =>
              /\ vresult.error = "InvalidProjectName"
              /\ vresult.reason # "Format"

C3_Witness ==
    /\ Validated
    /\ HasForbiddenChar(vname)
    /\ ~InTables(vname)
    /\ Len(vname) = 2
    /\ vname[1] \in LowerOrUnderscore
    /\ vresult.reason = "Format"

\* C4: validate_name returns Ok exactly for the non-empty strings of
\* lowercase ASCII letters and underscores that are in none of the tables.
C4_AcceptedNames ==
    Validated =>
        (vresult = Ok <=>
            /\ vname # <<>>
            /\ \A i \in 1..Len(vname) : vname[i] \in LowerOrUnderscore
            /\ ~InTables(vname))

C4_Witness ==
    /\ vresult = Ok
    /\ Len(vname) = 2
    /\ vname[1] = "_"
    /\ reserved # {}

---------------------------------------------------------------------------
(* C5 *)

\* What this call may have added to the directories: what its successful
\* mkdir calls made, and ancestors made by a mkdir before it failed.
DirsThisCallMade ==
    UNION {IF trace[i].ok THEN Prefixes(trace[i].path)
                          ELSE Prefixes(Parent(trace[i].path)) :
           i \in {j \in 1..Len(trace) : trace[j].op = "mkdir"}}

\* C5: the first mkdir or write that fails ends the run with that error.
\* The calls made are an initial part of run's statements, only the last one
\* can have failed, nothing of a later statement exists because of this call,
\* what the earlier statements made is still on disk, and the success
\* message is printed only when every statement succeeded.
C5_FirstFailureAborts ==
    (runs > 0 /\ creator # NoCreator) =>
        /\ Len(trace) <= Len(Steps)
        /\ \A i \in 1..Len(trace) :
              /\ trace[i].op = Steps[i].op
              /\ trace[i].path = Steps[i].path
              /\ i < Len(trace) => trace[i].ok
              /\ (trace[i].ok /\ trace[i].op = "mkdir") => trace[i].path \in dirs
              /\ (trace[i].ok /\ trace[i].op = "write") =>
                    /\ trace[i].path \in DOMAIN files
                    /\ files[trace[i].path] = Steps[i].contents
        /\ (trace # <<>> /\ ~trace[Len(trace)].ok) =>
              /\ pc = "done"
              /\ result.error = "FileIO"
              /\ result.path = trace[Len(trace)].path
              /\ result.kind = (IF trace[Len(trace)].op = "mkdir"
                                THEN "Directory" ELSE "File")
        /\ before.dirs \subseteq dirs
        /\ dirs \subseteq before.dirs \cup DirsThisCallMade
        /\ DOMAIN before.files \subseteq DOMAIN files
        /\ DOMAIN files \subseteq
              DOMAIN before.files \cup {trace[i].path : i \in 1..Len(trace)}
        /\ (result = Ok \/ Confirmed) =>
              /\ pc = "done"
              /\ result = Ok
              /\ Confirmed
              /\ Len(trace) = Len(Steps)
              /\ \A i \in 1..Len(trace) : trace[i].ok

C5_Witness ==
    /\ pc = "done"
    /\ result.error = "FileIO"
    /\ result.kind = "File"
    /\ Len(trace) >= 9
    /\ ~trace[Len(trace)].ok
    /\ trace[Len(trace) - 1].path \in DOMAIN files
    /\ ~Confirmed

---------------------------------------------------------------------------
(* C6 *)

\* The order of the files the claim states.
ClaimedFileOrder ==
    LET root == ExpectedRoot
        name == options.name
    IN <<root \o <<<<".gitignore">>>>,
         root \o <<<<".github">>, <<"workflows">>, <<"test.yml">>>>,
         root \o <<<<"README.md">>>>,
         root \o <<<<"gleam.toml">>>>,
         root \o <<<<"src">>, name \o <<".gleam">>>>,
         root \o <<<<"test">>, name \o <<"_test.gleam">>>>,
         root \o <<<<"rebar.config">>>>>>
       \o (IF options.template = "App" THEN <<AppModulePath>> ELSE <<>>)
       \o <<AppSrcPath>>

\* The order of the files in Creator::run.
CodeFileOrder ==
    LET root == ExpectedRoot
        name == options.name
    IN <<root \o <<<<".gitignore">>>>,
         root \o <<<<".github">>, <<"workflows">>, <<"test.yml">>>>,
         root \o <<<<"README.md">>>>,
         root \o <<<<"gleam.toml">>>>,
         root \o <<<<"rebar.config">>>>,
         AppSrcPath,
         root \o <<<<"src">>, name \o <<".gleam">>>>>>
       \o (IF options.template = "App" THEN <<AppModulePath>> ELSE <<>>)
       \o <<root \o <<<<"test">>, name \o <<"_test.gleam">>>>>>

\* C6, as claimed: the files are written in the order ignore-file, CI
\* workflow, README, manifest, source stub, test stub, then the build
\* configuration (and for App the application module), then the app
\* descriptor.
C6_AsClaimed ==
    (runs > 0 /\ creator # NoCreator) =>
        /\ IsPrefix(WrittenPaths, ClaimedFileOrder)
        /\ Succeeded => WrittenPaths = ClaimedFileOrder

\* C6, amended: the files are written in the order ignore-file, CI workflow,
\* README, manifest, build configuration, app descriptor, source stub, for
\* App the application module, and last the test stub.
C6_FileOrder ==
    (runs > 0 /\ creator # NoCreator) =>
        /\ IsPrefix(WrittenPaths, CodeFileOrder)
        /\ Succeeded => WrittenPaths = CodeFileOrder

C6_Witness ==
    /\ Succeeded
    /\ options.template = "App"
    /\ Len(WrittenPaths) = 9
    /\ WrittenPaths[6] = AppSrcPath

---------------------------------------------------------------------------
(* C7 *)

ModFieldText == <<"\n  {mod, {">> \o options.name \o <<"@application, []}},">>

\* C7: after a successful run the application module is written, and so
\* exists, exactly for App, and the app descriptor holds the mod field
\* naming <name>@application exactly for App.  For Lib the run neither makes
\* src/<name> nor writes the application module (they exist afterwards only
\* if they existed before the call) and the descriptor has no mod field.
C7_AppOnlyParts ==
    Succeeded =>
        /\ Written(AppModulePath) <=> options.template = "App"
        /\ AppSrcPath \in DOMAIN files
        /\ Contains(files[AppSrcPath], ModFieldText) <=> options.template = "App"
        /\ options.template = "App" =>
              /\ AppModulePath \in DOMAIN files
              /\ Parent(AppModulePath) \in dirs
        /\ options.template = "Lib" =>
              /\ Parent(AppModulePath) \notin Range(MkdirPaths)
              /\ Parent(AppModulePath) \in dirs <=>
                    Parent(AppModulePath) \in before.dirs
              /\ AppModulePath \in DOMAIN files <=>
                    AppModulePath \in DOMAIN before.files
              /\ "\n  {mod, {" \notin Range(files[AppSrcPath])

C7_Witness ==
    /\ Succeeded
    /\ options.template = "App"
    /\ AppModulePath \in DOMAIN files
    /\ Contains(files[AppSrcPath], ModFieldText)

---------------------------------------------------------------------------
(* C8, under SpecRerun *)

\* The current call repeats the previous, successful one for the same
\* project.
IsRerun ==
    /\ runs >= 2
    /\ prev.result = Ok
    /\ prev.options.name = options.name
    /\ prev.options.template = options.template
    /\ prev.options.project_root = options.project_root

SameTexts ==
    /\ prev.options.description = options.description
    /\ prev.version = version

\* Nothing the earlier run left behind makes the next statement fail: the
\* mkdir or write can return Ok.
NextStatementCanSucceed == InRun => ENABLED (MkdirOk \/ WriteOk)

\* C8, as claimed: a second run for the same root, name and template is
\* never stopped by what exists already, and when it succeeds the files are
\* what they were after the first run.
C8_AsClaimed ==
    IsRerun =>
        /\ NextStatementCanSucceed
        /\ Succeeded => files = before.files

\* C8, amended: a second run for the same root, name and template is never
\* stopped by what exists already, every file it writes holds the full new
\* text, and when the description (and the generator version) is the same
\* too the tree after it is what it was after the first run.
C8_RerunOverwrites ==
    IsRerun =>
        /\ NextStatementCanSucceed
        /\ \A i \in 1..Len(trace) :
              (trace[i].ok /\ trace[i].op = "write") =>
                  files[trace[i].path] = Steps[i].contents
        /\ Succeeded => DOMAIN files = DOMAIN before.files /\ dirs = before.dirs
        /\ (Succeeded /\ SameTexts) => files = before.files

C8_Witness ==
    /\ IsRerun
    /\ SameTexts
    /\ Succeeded
    /\ options.template = "App"
    /\ files = before.files
    /\ files # <<>>

---------------------------------------------------------------------------
(* C9 *)

\* C9: once the app descriptor is written, its description entry is the
\* description of the options and its vsn entry is PROJECT_VERSION (1.0.0).
C9_DescriptionAndVsn ==
    (creator # NoCreator /\ Written(AppSrcPath)) =>
        /\ Between(files[AppSrcPath], ",\n [{description, \"", "\"},\n  {vsn, \"")
              = options.description
        /\ Between(files[AppSrcPath], "\"},\n  {vsn, \"", "\"},\n  {registered, []},")
              = <<"1.0.0">>

---------------------------------------------------------------------------
(* C10 *)

\* C10: the directories are made in the order root, src, test, .github,
\* .github/workflows and, for App, src/<name>; a write is attempted only
\* after all of them were made in this call, and into one of them.
C10_DirectoriesFirst ==
    (runs > 0 /\ creator # NoCreator) =>
        /\ creator.root = ExpectedRoot
        /\ IsPrefix(MkdirPaths, ExpectedDirs)
        /\ \A i \in 1..Len(trace) :
              trace[i].op = "write" =>
                  /\ \A d \in Range(ExpectedDirs) :
                        \E j \in 1..(i-1) :
                            trace[j] = [op |-> "mkdir", path |-> d, ok |-> TRUE]
                  /\ Parent(trace[i].path) \in Range(ExpectedDirs)
                  /\ Parent(trace[i].path) \in dirs

C10_Witness ==
    /\ Succeeded
    /\ options.template = "App"
    /\ options.project_root.some
    /\ Len(MkdirPaths) = 6
    /\ MkdirPaths[6] = Parent(AppModulePath)

===========================================================================
